---- MODULE Spec2Model ----
(***************************************************************************)
(* Model of parameter-validator (src/src/ParameterValidator.js).           *)
(*                                                                         *)
(* JavaScript values are denoted by their literal source text: the string  *)
(* "undefined" is the value undefined, "10" the number 10, "''" the empty  *)
(* string, "true" the boolean true.  Objects live in a heap (a sequence of *)
(* property maps); a reference is an index into it, and 0 stands for an    *)
(* argument that was not passed (undefined).  Text (error messages) is a   *)
(* TLA+ string, built and sliced as the code builds and slices it.         *)
(***************************************************************************)
EXTENDS Integers, Sequences, FiniteSets, TLC

\* ------------------------------------------------------------------ bounds

\* Longest paramRequirements array the caller passes.
MaxReqs == 2

\* ------------------------------------------------------------ JS values

\* Parameter names the rules may name.
Names == {"a", "b"}

\* Property keys an object may hold ("c" is a key no rule names; "_a", "_b"
\* are the keys the documented addPrefix option would produce).
Keys == {"a", "b", "c", "_a", "_b"}

\* Marks a key an object does not own (distinct from owning it with the
\* value undefined).
Absent == "<absent>"

\* Functions the caller may pass as predicates.
Fns == {"gt30", "isUndef", "identity"}

\* A value that is not callable (typeof is not 'function').
NotFn == "'abc'"

\* typeof v === 'function'
IsFunction(v) == v \in Fns \cup {"isDefined"}

\* JS truthiness of a value.
Truthy(v) == v \notin {"undefined", "null", "false", "0", "''"}

\* Template-literal conversion `${v}`.
ToStr(v) == IF v = "''" THEN "" ELSE v

\* ParameterValidator.isDefined and the caller's predicates.
isDefined(value) == IF value # "undefined" THEN "true" ELSE "false"

\* Calling the function named f with the argument v.
Apply(f, v) ==
    CASE f = "isDefined" -> isDefined(v)
      [] f = "gt30"      -> IF v = "31" THEN "true" ELSE "false"   \* v => v > 30
      [] f = "isUndef"   -> IF v = "undefined" THEN "true" ELSE "false" \* v => v === undefined
      [] f = "identity"  -> v                                     \* v => v

\* ----------------------------------------------------------- JS objects

EmptyObj == [k \in Keys |-> Absent]

\* Object.keys(o) as a set.
OwnKeys(o) == {k \in Keys : o[k] # Absent}

\* o[k]
Get(o, k) == IF k \in Keys /\ o[k] # Absent THEN o[k] ELSE "undefined"

\* o[k] = v
Put(o, k, v) == [o EXCEPT ![k] = v]

\* Object.assign(target, source) on property maps.
AssignProps(t, s) == [k \in Keys |-> IF s[k] # Absent THEN s[k] ELSE t[k]]

\* A slip: extractedParams = validationResult.params, an assignment where
\* the code merges.
ObjectAssign_Replace(h, ref, params) == [h EXCEPT ![ref] = params]

\* Object.assign(extractedParams, params) in the heap h; extractedParams is
\* a reference.
ObjectAssign(h, ref, params) == [h EXCEPT ![ref] = AssignProps(h[ref], params)]

\* ------------------------------------------------------- requirements

\* A requirement is [type, str, names, entries]: a string (str), an array
\* of names (names), an object with its own keys in order (entries, each
\* [k, v]), null, or a number.
StrReq(s) == [type |-> "string", str |-> s, names |-> <<>>, entries |-> <<>>]
ArrReq(ns) == [type |-> "array", str |-> "", names |-> ns, entries |-> <<>>]
ObjReq(es) == [type |-> "object", str |-> "", names |-> <<>>, entries |-> es]
NullReq == [type |-> "null", str |-> "", names |-> <<>>, entries |-> <<>>]
NumReq == [type |-> "number", str |-> "", names |-> <<>>, entries |-> <<>>]

Entry(k, v) == [k |-> k, v |-> v]

\* typeof paramRequirement === 'object'
TypeofObject(r) == r.type \in {"array", "object", "null"}

\* ------------------------------------------------------------- errors

PVE == "ParameterValidationError"

Thrown(name, message, h) ==
    [kind |-> "thrown", name |-> name, message |-> message, ref |-> 0, heap |-> h]

Returned(ref, h) ==
    [kind |-> "returned", name |-> "", message |-> "", ref |-> ref, heap |-> h]

\* ----------------------------------------------- the validation helpers

RECURSIVE OrExtract(_, _, _, _)
\* The first loop of _performLogicalOrParamValidation from index i on.
OrExtract(Pobj, paramNames, isValid, i) ==
    IF i > Len(paramNames) THEN EmptyObj
    ELSE LET paramName == paramNames[i]
             rest == OrExtract(Pobj, paramNames, isValid, i + 1)
         IN  IF Truthy(Apply(isValid, Get(Pobj, paramName)))
             THEN AssignProps(Put(EmptyObj, paramName, Get(Pobj, paramName)), rest)
             ELSE rest

RECURSIVE OrNames(_, _)
\* The second loop of _performLogicalOrParamValidation from index i on.
OrNames(paramNames, i) ==
    IF i > Len(paramNames) THEN ""
    ELSE "'" \o paramNames[i] \o "', " \o OrNames(paramNames, i + 1)

\* str.slice(0, -n)
SliceEnd(str, n) == IF Len(str) <= n THEN "" ELSE SubSeq(str, 1, Len(str) - n)

RECURSIVE OrExtractFirst(_, _, _, _)
\* A slip: the first loop breaks at the first name that passes.
OrExtractFirst(Pobj, paramNames, isValid, i) ==
    IF i > Len(paramNames) THEN EmptyObj
    ELSE IF Truthy(Apply(isValid, Get(Pobj, paramNames[i])))
    THEN Put(EmptyObj, paramNames[i], Get(Pobj, paramNames[i]))
    ELSE OrExtractFirst(Pobj, paramNames, isValid, i + 1)

_performLogicalOrParamValidation_ShortCircuit(Pobj, paramNames, isValid) ==
    LET extractedParams == OrExtractFirst(Pobj, paramNames, isValid, 1)
        errorMessage ==
            SliceEnd("One of the following parameters must be included: "
                     \o OrNames(paramNames, 1), 2) \o "."
    IN  [thrown |-> FALSE, name |-> "", message |-> "",
         errors |-> IF OwnKeys(extractedParams) = {} THEN <<errorMessage>> ELSE <<>>,
         params |-> extractedParams]

_performLogicalOrParamValidation(Pobj, paramNames, isValid) ==
    LET extractedParams == OrExtract(Pobj, paramNames, isValid, 1)
        errorMessage ==
            SliceEnd("One of the following parameters must be included: "
                     \o OrNames(paramNames, 1), 2) \o "."
    IN  [thrown |-> FALSE, name |-> "", message |-> "",
         errors |-> IF OwnKeys(extractedParams) = {} THEN <<errorMessage>> ELSE <<>>,
         params |-> extractedParams]

\* A slip: the result of the predicate is tested for truthiness, not for
\* being exactly true.
_executeValidationFunction_Truthy(Pobj, paramName, validationFunction) ==
    IF ~IsFunction(validationFunction)
    THEN [thrown |-> TRUE, name |-> "Error",
          message |-> "A paramRequirement value provided for the parameter "
                      \o paramName \o " is not a function.",
          errors |-> <<>>, params |-> EmptyObj]
    ELSE IF Truthy(Apply(validationFunction, Get(Pobj, paramName)))
    THEN [thrown |-> FALSE, name |-> "", message |-> "", errors |-> <<>>,
          params |-> Put(EmptyObj, paramName, Get(Pobj, paramName))]
    ELSE [thrown |-> FALSE, name |-> "", message |-> "",
          errors |-> << "Invalid value of '" \o ToStr(Get(Pobj, paramName))
                        \o "' was provided for parameter '" \o paramName \o "'." >>,
          params |-> EmptyObj]

_executeValidationFunction(Pobj, paramName, validationFunction) ==
    IF ~IsFunction(validationFunction)
    THEN [thrown |-> TRUE, name |-> "Error",
          message |-> "A paramRequirement value provided for the parameter "
                      \o paramName \o " is not a function.",
          errors |-> <<>>, params |-> EmptyObj]
    ELSE IF Apply(validationFunction, Get(Pobj, paramName)) = "true"
    THEN [thrown |-> FALSE, name |-> "", message |-> "", errors |-> <<>>,
          params |-> Put(EmptyObj, paramName, Get(Pobj, paramName))]
    ELSE [thrown |-> FALSE, name |-> "", message |-> "",
          errors |-> << "Invalid value of '" \o ToStr(Get(Pobj, paramName))
                        \o "' was provided for parameter '" \o paramName \o "'." >>,
          params |-> EmptyObj]

\* get defaultValidation(): this._defaultValidation || this.isDefined
defaultValidation(this) ==
    IF Truthy(this._defaultValidation) THEN this._defaultValidation ELSE "isDefined"

\* Object.keys(paramRequirement)[0] and paramRequirement[paramName] for a
\* requirement whose typeof is 'object' and that is not null: an empty
\* array or object has no first key, so paramName is undefined and so is
\* the property read.
FirstKey(r) == IF Len(r.entries) = 0 THEN "undefined" ELSE r.entries[1].k
FirstValue(r) == IF Len(r.entries) = 0 THEN "undefined" ELSE r.entries[1].v

\* One iteration of the loop of validate: what the branch taken for the
\* requirement r produces.
RequirementResult(this, Pobj, r) ==
    IF r.type = "array" /\ Len(r.names) > 0
    THEN _performLogicalOrParamValidation(Pobj, r.names, defaultValidation(this))
    ELSE IF TypeofObject(r)
    THEN IF r.type = "null"
         THEN \* Object.keys(null) throws
              [thrown |-> TRUE, name |-> "TypeError",
               message |-> "Cannot convert undefined or null to object",
               errors |-> <<>>, params |-> EmptyObj]
         ELSE _executeValidationFunction(Pobj, FirstKey(r), FirstValue(r))
    ELSE IF r.type = "string" /\ r.str # ""
    THEN _executeValidationFunction(Pobj, r.str, defaultValidation(this))
    ELSE [thrown |-> FALSE, name |-> "", message |-> "", errors |-> <<>>,
          params |-> EmptyObj]

RECURSIVE JoinErrors(_, _)
\* for (let error of errors) errorMessage += error + ' ', from index i on.
JoinErrors(errors, i) ==
    IF i > Len(errors) THEN "" ELSE errors[i] \o " " \o JoinErrors(errors, i + 1)

\* A slip: only the first failure is reported.
Finish_FirstOnly(h, extractedParams, errors) ==
    IF Len(errors) > 0
    THEN Thrown(PVE, errors[1], h)
    ELSE Returned(extractedParams, h)

\* The end of validate, after the loop.
Finish(h, extractedParams, errors) ==
    IF Len(errors) > 0
    THEN Thrown(PVE, SliceEnd(JoinErrors(errors, 1), 1), h)
    ELSE Returned(extractedParams, h)

RECURSIVE ValidateLoop(_, _, _, _, _, _, _)
\* The loop of validate from requirement i on; the provided values are
\* read through the heap, since the target may be the same object.
ValidateLoop(this, h, paramsProvided, reqs, extractedParams, errors, i) ==
    IF i > Len(reqs) THEN Finish(h, extractedParams, errors)
    ELSE LET validationResult == RequirementResult(this, h[paramsProvided], reqs[i])
         IN  IF validationResult.thrown
             THEN Thrown(validationResult.name, validationResult.message, h)
             ELSE ValidateLoop(this,
                               ObjectAssign(h, extractedParams, validationResult.params),
                               paramsProvided, reqs, extractedParams,
                               errors \o validationResult.errors, i + 1)

\* A slip: the extraction is collected in a scratch object and merged into
\* the caller's target only when every rule passed.
validate_MergeOnSuccess(this, h, a) ==
    LET h1 == Append(h, EmptyObj)
        scratch == Len(h1)
        r == ValidateLoop(this, h1, a.paramsProvided, a.paramRequirements,
                          scratch, <<>>, 1)
    IN  IF a.paramsProvided = 0
        THEN Thrown(PVE, "A paramsProvided object is required.", h1)
        ELSE IF ~a.isArray
        THEN Thrown("Error", "paramRequirements must be an array.", h1)
        ELSE IF a.extractedParams = 0
        THEN r
        ELSE IF r.kind = "thrown"
        THEN Thrown(r.name, r.message, h)
        ELSE Returned(a.extractedParams,
                      ObjectAssign(h, a.extractedParams, r.heap[scratch]))

\* A slip: the caller's target is not used; the extraction always goes to
\* a new object.
validate_NewObject(this, h, a) ==
    LET h1 == Append(h, EmptyObj)
    IN  IF a.paramsProvided = 0
        THEN Thrown(PVE, "A paramsProvided object is required.", h1)
        ELSE IF ~a.isArray
        THEN Thrown("Error", "paramRequirements must be an array.", h1)
        ELSE ValidateLoop(this, h1, a.paramsProvided, a.paramRequirements,
                          Len(h1), <<>>, 1)

\* validate(paramsProvided, paramRequirements, extractedParams = {}).  The
\* call a is [paramsProvided, isArray, paramRequirements, extractedParams,
\* options]; a fourth argument (options) is accepted by no parameter.
validate(this, h, a) ==
    LET h1 == IF a.extractedParams = 0 THEN Append(h, EmptyObj) ELSE h
        extractedParams == IF a.extractedParams = 0 THEN Len(h1) ELSE a.extractedParams
    IN  IF a.paramsProvided = 0
        THEN Thrown(PVE, "A paramsProvided object is required.", h1)
        ELSE IF ~a.isArray
        THEN Thrown("Error", "paramRequirements must be an array.", h1)
        ELSE ValidateLoop(this, h1, a.paramsProvided, a.paramRequirements,
                          extractedParams, <<>>, 1)

\* A slip: validate is called on the caller's stack and its result wrapped,
\* return Promise.resolve(this.validate(...args)).
validateAsync_Eager(this, h, a) ==
    LET r == validate(this, h, a)
    IN  IF r.kind = "thrown"
        THEN [kind |-> "thrown", name |-> r.name, message |-> r.message, ref |-> 0,
              heap |-> r.heap,
              promise |-> [state |-> "none", name |-> "", message |-> "", ref |-> 0],
              jobs |-> <<>>]
        ELSE [kind |-> "returned", name |-> "", message |-> "", ref |-> 0,
              heap |-> r.heap,
              promise |-> [state |-> "fulfilled", name |-> "", message |-> "",
                           ref |-> r.ref],
              jobs |-> <<>>]

\* validateAsync(...args): Promise.resolve().then(() => this.validate(...args)).
\* Promise.resolve() is already fulfilled, so then() queues the callback as
\* a microtask and returns a pending promise; nothing runs on the caller's
\* stack.  The result is the call's completion, the promise returned and
\* the microtasks queued.
validateAsync(this, h, a) ==
    [kind |-> "returned", name |-> "", message |-> "", ref |-> 0, heap |-> h,
     promise |-> [state |-> "pending", name |-> "", message |-> "", ref |-> 0],
     jobs |-> << [this |-> this, args |-> a] >>]

\* How the promise returned by then() settles from its callback's
\* completion r.
Settle(r) ==
    IF r.kind = "thrown"
    THEN [state |-> "rejected", name |-> r.name, message |-> r.message, ref |-> 0]
    ELSE [state |-> "fulfilled", name |-> "", message |-> "", ref |-> r.ref]

\* new ParameterValidator(options); options is [present, defaultValidation].
ParameterValidator(options) ==
    IF options.present
       /\ ~(options.defaultValidation = "undefined" \/ IsFunction(options.defaultValidation))
    THEN [thrown |-> TRUE, name |-> PVE,
          message |-> "The optional defaultValidation parameter provided is not a function.",
          this |-> [_defaultValidation |-> "undefined"]]
    ELSE [thrown |-> FALSE, name |-> "", message |-> "",
          this |-> [_defaultValidation |->
                      IF options.present THEN options.defaultValidation ELSE "undefined"]]

\* -------------------------------------------------------------- state

VARIABLES
    inst,     \* the ParameterValidator instance the caller uses
    heap,     \* the objects, by reference
    args,     \* the arguments the caller passes to validate / validateAsync
    ctor,     \* completion of the caller's new ParameterValidator(options)
    sync,     \* completion of the caller's validate(...args)
    async,    \* completion of the caller's validateAsync(...args)
    promise,  \* the promise validateAsync returned
    jobs      \* the microtask queue

vars == <<inst, heap, args, ctor, sync, async, promise, jobs>>

\* References of the caller's two objects.
PRef == 1
TRef == 2

NoCompletion == [kind |-> "none", name |-> "", message |-> "", ref |-> 0]
Completion(r) == [kind |-> r.kind, name |-> r.name, message |-> r.message, ref |-> r.ref]
NoPromise == [state |-> "none", name |-> "", message |-> "", ref |-> 0]

\* ------------------------------------------------------------- inputs

\* Provided-values objects of the caller.
ProvidedObjs ==
    {[k \in Keys |-> CASE k = "a" -> va [] k = "b" -> vb [] OTHER -> Absent] :
        va \in {Absent, "10", "31"}, vb \in {Absent, "''"}}

\* The caller's own object, passed as the extraction target.
TargetObj == [k \in Keys |-> IF k \in {"a", "c"} THEN "0" ELSE Absent]

\* Requirements the caller writes.
Requirements ==
    {StrReq(s) : s \in Names \cup {""}}
    \cup {ArrReq(ns) : ns \in {<<>>, <<"a">>, <<"a", "b">>}}
    \cup {ObjReq(es) : es \in {<<>>, <<Entry("a", "gt30")>>, <<Entry("a", "identity")>>,
                               <<Entry("b", "isUndef")>>, <<Entry("b", NotFn)>>,
                               <<Entry("b", "gt30"), Entry("a", NotFn)>>}}
    \cup {NullReq, NumReq}

RECURSIVE SeqsUpTo(_, _)
SeqsUpTo(S, n) ==
    IF n = 0 THEN {<<>>}
    ELSE LET shorter == SeqsUpTo(S, n - 1)
         IN  shorter \cup {Append(s, x) : s \in {t \in shorter : Len(t) = n - 1}, x \in S}

Call(p, isArr, reqs, target, prefix) ==
    [paramsProvided |-> p, isArray |-> isArr, paramRequirements |-> reqs,
     extractedParams |-> target, options |-> prefix]

\* Argument lists: well-formed calls over every requirement list, with no
\* target, the caller's object or the provided values themselves as target
\* (and the documented addPrefix option with the caller's object); and the
\* misuses, a missing paramsProvided and a paramRequirements that is no
\* array.
ArgLists ==
    {Call(PRef, TRUE, reqs, t[1], t[2]) :
        reqs \in SeqsUpTo(Requirements, MaxReqs),
        t \in {<<0, "undefined">>, <<TRef, "undefined">>, <<PRef, "undefined">>,
               <<TRef, "_">>}}
    \cup {Call(p, isArr, <<>>, target, "undefined") :
            p \in {0, PRef}, isArr \in BOOLEAN, target \in {0, TRef}}

\* Options the caller may construct a validator with.
CtorOptions ==
    {[present |-> FALSE, defaultValidation |-> "undefined"]}
    \cup {[present |-> TRUE, defaultValidation |-> v] :
            v \in {"undefined", "gt30", "identity", NotFn}}

\* ------------------------------------------------------------- actions

\* Module load: the singleton instance exists; the caller holds its
\* objects and has chosen its arguments.
Init ==
    /\ inst = ParameterValidator([present |-> FALSE, defaultValidation |-> "undefined"]).this
    /\ \E Pobj \in ProvidedObjs : heap = <<Pobj, TargetObj>>
    /\ args \in ArgLists
    /\ ctor = NoCompletion
    /\ sync = NoCompletion
    /\ async = NoCompletion
    /\ promise = NoPromise
    /\ jobs = <<>>

\* The caller constructs its own validator instead of using the singleton.
Construct ==
    /\ ctor.kind = "none" /\ sync.kind = "none" /\ async.kind = "none"
    /\ \E options \in CtorOptions :
         LET r == ParameterValidator(options)
         IN  /\ ctor' = [kind |-> IF r.thrown THEN "thrown" ELSE "returned",
                         name |-> r.name, message |-> r.message, ref |-> 0]
             /\ inst' = IF r.thrown THEN inst ELSE r.this
    /\ UNCHANGED <<heap, args, sync, async, promise, jobs>>

\* The caller calls inst.validate(...args).
CallValidate ==
    /\ sync.kind = "none"
    /\ LET r == validate(inst, heap, args)
       IN  /\ sync' = Completion(r)
           /\ heap' = r.heap
    /\ UNCHANGED <<inst, args, ctor, async, promise, jobs>>

\* The caller calls inst.validateAsync(...args).
CallValidateAsync ==
    /\ async.kind = "none"
    /\ LET r == validateAsync(inst, heap, args)
       IN  /\ async' = Completion(r)
           /\ heap' = r.heap
           /\ promise' = r.promise
           /\ jobs' = jobs \o r.jobs
    /\ UNCHANGED <<inst, args, ctor, sync>>

\* The engine runs the next microtask: the then() callback, which calls
\* validate and settles the promise with its completion.
RunJob ==
    /\ jobs # <<>>
    /\ LET job == Head(jobs)
           r == validate(job.this, heap, job.args)
       IN  /\ promise' = Settle(r)
           /\ heap' = r.heap
    /\ jobs' = Tail(jobs)
    /\ UNCHANGED <<inst, args, ctor, sync, async>>

Next == Construct \/ CallValidate \/ CallValidateAsync \/ RunJob

Spec == Init /\ [][Next]_vars

\* ------------------------------------------- vocabulary of the claims

\* The step in which the caller's validate call runs.
ValidateStep == sync.kind = "none" /\ sync'.kind # "none"

\* The instance's default validity predicate: isDefined unless overridden.
DefaultPredicate(i) ==
    IF i._defaultValidation = "undefined" THEN "isDefined" ELSE i._defaultValidation

\* The three rule forms.
IsRequired(r) == r.type = "string" /\ r.str # ""
IsOneOf(r) == r.type = "array" /\ Len(r.names) > 0
IsCustom(r) == r.type = "object" /\ Len(r.entries) = 1

\* The parameter a required or custom rule names, and its predicate.
HasKey(r) == r.type = "object" /\ Len(r.entries) >= 1
NameOf(r) == IF HasKey(r) THEN r.entries[1].k ELSE r.str
PredicateOf(i, r) == IF HasKey(r) THEN r.entries[1].v ELSE DefaultPredicate(i)

\* A rule of one of the three forms whose predicate can be called.
IsRule(r) == IsRequired(r) \/ IsOneOf(r) \/ (IsCustom(r) /\ r.entries[1].v \in Fns)

\* The names of a one-of rule that pass the default predicate.
OneOfPassing(i, Pobj, r) ==
    {r.names[j] : j \in {j \in 1..Len(r.names) :
        Truthy(Apply(DefaultPredicate(i), Get(Pobj, r.names[j])))}}

\* A required or custom rule passes when its predicate returns exactly true.
PassesExactly(i, Pobj, r) == Apply(PredicateOf(i, r), Get(Pobj, NameOf(r))) = "true"

Satisfied(i, Pobj, r) ==
    IF IsOneOf(r) THEN OneOfPassing(i, Pobj, r) # {} ELSE PassesExactly(i, Pobj, r)

\* The names a rule names, and those it extracts.
NamedBy(r) == IF IsOneOf(r) THEN {r.names[j] : j \in 1..Len(r.names)} ELSE {NameOf(r)}
ExtractedBy(i, Pobj, r) ==
    IF IsOneOf(r) THEN OneOfPassing(i, Pobj, r)
    ELSE IF PassesExactly(i, Pobj, r) THEN {NameOf(r)} ELSE {}

AllNamed(R) == UNION {NamedBy(R[j]) : j \in 1..Len(R)}
AllExtracted(i, Pobj, R) == UNION {ExtractedBy(i, Pobj, R[j]) : j \in 1..Len(R)}

\* A well-formed call without a target whose rules are all satisfied.
SatisfiedCall(i, Pobj, a) ==
    /\ a.paramsProvided = PRef /\ a.isArray /\ a.extractedParams = 0
    /\ Len(a.paramRequirements) > 0
    /\ \A j \in 1..Len(a.paramRequirements) :
         IsRule(a.paramRequirements[j]) /\ Satisfied(i, Pobj, a.paramRequirements[j])

\* The object o holds exactly the keys ks, each with its value in Pobj.
HoldsExactly(o, ks, Pobj) ==
    /\ OwnKeys(o) = ks
    /\ \A k \in ks : o[k] = Get(Pobj, k)

\* ------------------------------------------------------------------ C1

\* C1 as stated: when every rule is satisfied, validate without a target
\* returns a mapping whose keys are exactly the names the rules name, each
\* with its value in P.
C1_AsStated ==
    [][ValidateStep /\ SatisfiedCall(inst, heap[PRef], args)
        => /\ sync'.kind = "returned"
           /\ HoldsExactly(heap'[sync'.ref], AllNamed(args.paramRequirements), heap[PRef])]_vars

\* C1 amended: when every rule is satisfied, validate without a target
\* raises nothing and returns a fresh mapping whose keys are exactly the
\* names of the required and custom rules and the names of the one-of rules
\* that pass the default predicate, each with its value in P.
C1_SatisfiedRulesExtracted ==
    [][ValidateStep /\ SatisfiedCall(inst, heap[PRef], args)
        => /\ sync'.kind = "returned"
           /\ sync'.ref = Len(heap) + 1
           /\ HoldsExactly(heap'[sync'.ref],
                           AllExtracted(inst, heap[PRef], args.paramRequirements),
                           heap[PRef])]_vars

\* A satisfied call with a one-of rule of which only one name passes, and a
\* custom rule, has returned.
C1_Witness ==
    /\ sync.kind = "returned"
    /\ SatisfiedCall(inst, heap[PRef], args)
    /\ \E j, k \in 1..Len(args.paramRequirements) :
         /\ IsOneOf(args.paramRequirements[j])
         /\ OneOfPassing(inst, heap[PRef], args.paramRequirements[j])
              # NamedBy(args.paramRequirements[j])
         /\ IsCustom(args.paramRequirements[k])

\* ------------------------------------------------------------------ C2

RECURSIVE QuotedList(_)
\* The names ns, each in single quotes, joined by a comma and a space.
QuotedList(ns) ==
    IF Len(ns) = 1 THEN "'" \o ns[1] \o "'"
    ELSE "'" \o ns[1] \o "', " \o QuotedList(Tail(ns))

\* The message of a failing rule.
FailureMessage(Pobj, r) ==
    IF IsOneOf(r)
    THEN "One of the following parameters must be included: " \o QuotedList(r.names) \o "."
    ELSE "Invalid value of '" \o ToStr(Get(Pobj, NameOf(r)))
         \o "' was provided for parameter '" \o NameOf(r) \o "'."

\* A requirement validate evaluates as a rule: one of the three forms, an
\* object with several keys counting as a custom rule on its first key.
IsEvaluated(r) ==
    \/ IsRequired(r)
    \/ IsOneOf(r)
    \/ (HasKey(r) /\ r.entries[1].v \in Fns)

FailsRule(i, Pobj, r) == IsRule(r) /\ ~Satisfied(i, Pobj, r)
FailsEvaluated(i, Pobj, r) == IsEvaluated(r) /\ ~Satisfied(i, Pobj, r)

RECURSIVE MessagesOfRules(_, _, _)
\* The messages of the failing rules of R, in the order of R.
MessagesOfRules(i, Pobj, R) ==
    IF R = <<>> THEN <<>>
    ELSE (IF FailsRule(i, Pobj, Head(R)) THEN <<FailureMessage(Pobj, Head(R))>> ELSE <<>>)
         \o MessagesOfRules(i, Pobj, Tail(R))

RECURSIVE MessagesOfEvaluated(_, _, _)
\* The messages of the failing evaluated requirements of R, in the order of R.
MessagesOfEvaluated(i, Pobj, R) ==
    IF R = <<>> THEN <<>>
    ELSE (IF FailsEvaluated(i, Pobj, Head(R)) THEN <<FailureMessage(Pobj, Head(R))>> ELSE <<>>)
         \o MessagesOfEvaluated(i, Pobj, Tail(R))

RECURSIVE JoinWithSpace(_)
\* The messages ms joined by single spaces.
JoinWithSpace(ms) ==
    IF Len(ms) = 1 THEN ms[1] ELSE ms[1] \o " " \o JoinWithSpace(Tail(ms))

\* A call that passes the provided values and an array of requirements.
ProperCall(a) == a.paramsProvided = PRef /\ a.isArray

\* Every requirement of R has one of the three rule forms.
OnlyRuleForms(R) ==
    \A j \in 1..Len(R) : IsRequired(R[j]) \/ IsOneOf(R[j]) \/ IsCustom(R[j])

\* C2 as stated: whenever at least one requirement fails, validate raises
\* one ParameterValidationError whose message is the messages of all the
\* failing requirements, in list order, joined by single spaces (stated
\* here for the lists made only of requirements of the three rule forms).
C2_AsStated ==
    [][ValidateStep /\ ProperCall(args) /\ OnlyRuleForms(args.paramRequirements)
        /\ MessagesOfRules(inst, heap[PRef], args.paramRequirements) # <<>>
        => /\ sync'.kind = "thrown" /\ sync'.name = PVE
           /\ sync'.message =
                JoinWithSpace(MessagesOfRules(inst, heap[PRef], args.paramRequirements))]_vars

\* validate raised an error that is not a ParameterValidationError.
GenericError(c) == c.kind = "thrown" /\ c.name # PVE

\* C2 amended: whenever at least one requirement fails and validate raises
\* no generic error (no requirement's predicate is non-callable), it raises
\* one ParameterValidationError whose message is the messages of all the
\* failing requirements, in list order, joined by single spaces with no
\* leading or trailing space.
C2_AllFailuresReported ==
    [][ValidateStep /\ ProperCall(args) /\ ~GenericError(sync')
        /\ MessagesOfEvaluated(inst, heap[PRef], args.paramRequirements) # <<>>
        => /\ sync'.kind = "thrown" /\ sync'.name = PVE
           /\ sync'.message =
                JoinWithSpace(MessagesOfEvaluated(inst, heap[PRef], args.paramRequirements))]_vars

\* Two requirements failed, a one-of rule after a required rule, and one
\* ParameterValidationError was raised.
C2_Witness ==
    /\ sync.kind = "thrown" /\ sync.name = PVE
    /\ ProperCall(args) /\ args.extractedParams = 0
    /\ Len(args.paramRequirements) = 2
    /\ IsRequired(args.paramRequirements[1]) /\ IsOneOf(args.paramRequirements[2])
    /\ \A j \in 1..2 : FailsRule(inst, heap[PRef], args.paramRequirements[j])

\* ------------------------------------------------------------------ C7

\* The shapes C7 lists: neither a non-empty array, nor an object with
\* exactly one key, nor a non-empty string.
IgnoredShape(r) == ~IsRequired(r) /\ ~IsOneOf(r) /\ ~IsCustom(r)

RECURSIVE WithoutIgnored(_)
WithoutIgnored(R) ==
    IF R = <<>> THEN <<>>
    ELSE (IF IgnoredShape(Head(R)) THEN <<>> ELSE <<Head(R)>>) \o WithoutIgnored(Tail(R))

\* C7 as stated: a requirement of another shape is silently ignored, so
\* validate completes, and leaves the heap, as it does on the list without
\* those requirements.
C7_AsStated ==
    [][ValidateStep /\ ProperCall(args)
        => LET r == validate(inst, heap,
                             [args EXCEPT !.paramRequirements = WithoutIgnored(@)])
           IN  sync' = Completion(r) /\ heap' = r.heap]_vars

\* ------------------------------------------------------------------ C4

\* C4 as stated: the three misuses raise an error that is not a
\* ParameterValidationError, and a ParameterValidationError is raised only
\* for failing rules and for a missing paramsProvided.
C4_AsStated ==
    /\ ctor.kind = "thrown" => ctor.name # PVE
    /\ sync.kind # "none" /\ args.paramsProvided = PRef /\ ~args.isArray
         => GenericError(sync)
    /\ sync.kind # "none" /\ ProperCall(args)
       /\ (\E j \in 1..Len(args.paramRequirements) :
             IsCustom(args.paramRequirements[j])
             /\ args.paramRequirements[j].entries[1].v \notin Fns)
         => GenericError(sync)
    /\ sync.kind = "thrown" /\ sync.name = PVE
         => \/ args.paramsProvided = 0
            \/ MessagesOfEvaluated(inst, heap[PRef], args.paramRequirements) # <<>>

\* ------------------------------------------------------------------ C6

\* options.addPrefix followed by the parameter name.
Prefixed(prefix, n) == prefix \o n

\* C6 as stated: with options.addPrefix, every validated parameter is on
\* the target under the prefixed key, and the unprefixed key is untouched.
C6_AsStated ==
    sync.kind = "returned" /\ ProperCall(args) /\ args.options # "undefined"
      /\ args.extractedParams = TRef
    => \A n \in AllExtracted(inst, heap[PRef], args.paramRequirements) :
         /\ heap[sync.ref][Prefixed(args.options, n)] = Get(heap[PRef], n)
         /\ heap[sync.ref][n] = TargetObj[n]

\* ------------------------------------------------------- C5, C8, C9

\* The reference the call a extracts into, from the heap h it is made in:
\* the caller's target, or the fresh object the default parameter creates.
TargetOf(h, a) == IF a.extractedParams = 0 THEN Len(h) + 1 ELSE a.extractedParams

\* The contents of that object before the call.
BeforeCall(h, a) == IF a.extractedParams = 0 THEN EmptyObj ELSE h[a.extractedParams]

\* The object before with the names ns set to their values in Pobj.
Merged(before, ns, Pobj) ==
    [k \in Keys |-> IF k \in ns THEN Get(Pobj, k) ELSE before[k]]

\* C5: when the caller supplies a target and validate succeeds, the value
\* returned is that very object (no object is created), every validated
\* parameter is set on it under its own name with its value in P, and the
\* keys no rule names keep their values.
C5_TargetMergedInPlace ==
    [][ValidateStep /\ ProperCall(args) /\ args.extractedParams # 0
        /\ args.options = "undefined" /\ sync'.kind = "returned"
        => /\ sync'.ref = args.extractedParams
           /\ Len(heap') = Len(heap)
           /\ \A n \in AllExtracted(inst, heap[PRef], args.paramRequirements) :
                heap'[sync'.ref][n] = Get(heap[PRef], n)
           /\ \A k \in Keys \ AllNamed(args.paramRequirements) :
                heap'[sync'.ref][k] = heap[sync'.ref][k]]_vars

\* validate returned the caller's object with a validated parameter written
\* over its old value and the key no rule names still there.
C5_Witness ==
    /\ sync.kind = "returned" /\ sync.ref = TRef
    /\ args.extractedParams = TRef /\ args.options = "undefined"
    /\ "a" \in AllExtracted(inst, heap[PRef], args.paramRequirements)
    /\ heap[TRef]["a"] # TargetObj["a"]
    /\ heap[TRef]["c"] = TargetObj["c"]

\* A call with the single requirement r.
SingleRule(a) == ProperCall(a) /\ Len(a.paramRequirements) = 1

\* C8: a custom rule {name: predicate} with a callable predicate, or a
\* required rule with the default predicate, extracts P[name] (defined or
\* not) if and only if the predicate returns exactly true; for any other
\* return value nothing is extracted and the message "Invalid value of
\* '<value>' was provided for parameter '<name>'." is raised.
C8_ExactlyTrue ==
    [][ValidateStep /\ SingleRule(args)
        /\ (IsRequired(args.paramRequirements[1])
            \/ (IsCustom(args.paramRequirements[1])
                /\ args.paramRequirements[1].entries[1].v \in Fns))
        => LET r == args.paramRequirements[1]
               value == Get(heap[PRef], NameOf(r))
               target == TargetOf(heap, args)
               before == BeforeCall(heap, args)
           IN  IF Apply(PredicateOf(inst, r), value) = "true"
               THEN /\ sync'.kind = "returned" /\ sync'.ref = target
                    /\ heap'[target] = Put(before, NameOf(r), value)
               ELSE /\ sync'.kind = "thrown" /\ sync'.name = PVE
                    /\ sync'.message =
                         "Invalid value of '" \o ToStr(value)
                         \o "' was provided for parameter '" \o NameOf(r) \o "'."
                    /\ heap'[target] = before]_vars

\* A custom rule whose predicate returned a truthy value other than true
\* was rejected.
C8_Witness ==
    /\ sync.kind = "thrown" /\ sync.name = PVE
    /\ SingleRule(args) /\ IsCustom(args.paramRequirements[1])
    /\ args.paramRequirements[1].entries[1].v \in Fns
    /\ LET r == args.paramRequirements[1]
           result == Apply(PredicateOf(inst, r), Get(heap[PRef], NameOf(r)))
       IN  Truthy(result) /\ result # "true"

\* C9: a one-of rule extracts every name that passes the default predicate
\* and no other; it raises "One of the following parameters must be
\* included: 'n1', 'n2'." if and only if no name passes.
C9_OneOf ==
    [][ValidateStep /\ SingleRule(args) /\ IsOneOf(args.paramRequirements[1])
        => LET r == args.paramRequirements[1]
               passing == OneOfPassing(inst, heap[PRef], r)
               target == TargetOf(heap, args)
           IN  /\ heap'[target] = Merged(BeforeCall(heap, args), passing, heap[PRef])
               /\ IF passing = {}
                  THEN /\ sync'.kind = "thrown" /\ sync'.name = PVE
                       /\ sync'.message =
                            "One of the following parameters must be included: "
                            \o QuotedList(r.names) \o "."
                  ELSE sync'.kind = "returned" /\ sync'.ref = target]_vars

\* Exactly one of the two names of a one-of rule is defined, and validate
\* returned a mapping holding it alone.
C9_Witness ==
    /\ sync.kind = "returned" /\ SingleRule(args) /\ args.extractedParams = 0
    /\ inst._defaultValidation = "undefined"
    /\ IsOneOf(args.paramRequirements[1]) /\ Len(args.paramRequirements[1].names) = 2
    /\ Cardinality(OneOfPassing(inst, heap[PRef], args.paramRequirements[1])) = 1
    /\ OwnKeys(heap[sync.ref]) = OneOfPassing(inst, heap[PRef], args.paramRequirements[1])

\* ----------------------------------------------------------------- C10

\* A requirement on which validate raises a generic error.
Raises(r) == TypeofObject(r) /\ ~IsOneOf(r) /\ ~(HasKey(r) /\ r.entries[1].v \in Fns)

\* The index of the first such requirement of R, or 0.
FirstRaising(R) ==
    IF \E j \in 1..Len(R) : Raises(R[j])
    THEN CHOOSE j \in 1..Len(R) : Raises(R[j]) /\ \A l \in 1..(j - 1) : ~Raises(R[l])
    ELSE 0

\* What validate leaves on the target when it raises: after a
\* ParameterValidationError, the previous contents and every parameter
\* that passed any rule; after the generic error of a non-callable
\* predicate at rule i, the previous contents and every parameter that
\* passed a rule before i, the error carrying none of the messages
\* accumulated before i.
NoRollback ==
    ValidateStep /\ ProperCall(args) /\ args.extractedParams # 0
    => LET R == args.paramRequirements
           i == FirstRaising(R)
           target == args.extractedParams
       IN  /\ sync'.kind = "thrown" /\ sync'.name = PVE
                => heap'[target] =
                     Merged(heap[target], AllExtracted(inst, heap[PRef], R), heap[PRef])
           /\ i # 0 /\ HasKey(R[i])
                => /\ sync'.kind = "thrown" /\ sync'.name = "Error"
                   /\ sync'.message =
                        "A paramRequirement value provided for the parameter "
                        \o NameOf(R[i]) \o " is not a function."
                   /\ heap'[target] =
                        Merged(heap[target],
                               AllExtracted(inst, heap[PRef], SubSeq(R, 1, i - 1)),
                               heap[PRef])

\* C10 as stated: no rollback, and in both cases P itself is unchanged.
C10_AsStated ==
    [][NoRollback
       /\ (ValidateStep /\ ProperCall(args) /\ args.extractedParams # 0
           /\ sync'.kind = "thrown" => heap'[PRef] = heap[PRef])]_vars

\* C10 amended: no rollback, and in both cases P itself is unchanged unless
\* P was itself passed as the target (it then receives the merges like any
\* target).
C10_NoRollback ==
    [][NoRollback
       /\ (ValidateStep /\ ProperCall(args) /\ args.extractedParams # 0
           /\ args.extractedParams # PRef /\ sync'.kind = "thrown"
           => heap'[PRef] = heap[PRef])]_vars

\* validate raised the generic error of a non-callable predicate at the
\* second rule and the caller's object holds the parameter the first rule
\* extracted.
C10_Witness ==
    /\ sync.kind = "thrown" /\ sync.name = "Error"
    /\ ProperCall(args) /\ args.extractedParams = TRef
    /\ Len(args.paramRequirements) = 2
    /\ FirstRaising(args.paramRequirements) = 2
    /\ HasKey(args.paramRequirements[2])
    /\ "a" \in ExtractedBy(inst, heap[PRef], args.paramRequirements[1])
    /\ heap[TRef]["a"] = Get(heap[PRef], "a")
    /\ heap[TRef]["a"] # TargetObj["a"]

\* ------------------------------------------------------------------ C3

Settled(p) == p.state \in {"fulfilled", "rejected"}

\* C3: validateAsync never raises on the caller's stack; it returns a
\* promise that, once the queued callback has run, is rejected with an
\* error of the same kind and message as validate raises on the same
\* arguments, and is fulfilled with the same extraction (the same target
\* object when one was passed) when validate returns.
C3_AsyncMatchesSync ==
    /\ async.kind # "thrown"
    /\ async.kind = "returned" => promise.state # "none"
    /\ promise.state = "pending" <=> jobs # <<>>
    /\ Settled(promise) /\ sync.kind # "none"
         => IF sync.kind = "thrown"
            THEN /\ promise.state = "rejected"
                 /\ promise.name = sync.name
                 /\ promise.message = sync.message
            ELSE /\ promise.state = "fulfilled"
                 /\ heap[promise.ref] = heap[sync.ref]
                 /\ args.extractedParams # 0 => promise.ref = sync.ref
                 /\ args.extractedParams = 0 => promise.ref # sync.ref

\* Both calls were made on arguments validate rejects, and the promise is
\* rejected with the ParameterValidationError validate raised.
C3_Witness ==
    /\ async.kind = "returned" /\ promise.state = "rejected"
    /\ sync.kind = "thrown" /\ sync.name = PVE
    /\ promise.message = sync.message
    /\ Len(args.paramRequirements) = 2

====
